---------------------------- MODULE Spec2Model ----------------------------
(***************************************************************************)
(* The concurrent probing engine of multi_ping (src/src/multi_ping/cli.py):*)
(* monitor_addresses (the orchestrator), one ping_worker task per address, *)
(* the EscapeListener thread, DelayController, the asyncio.Semaphore gate  *)
(* and the asyncio.Lock that serialises display_results.                   *)
(*                                                                         *)
(* Granularity.  A worker or the orchestrator takes one step per place at  *)
(* which the coroutine may be suspended: every `await` and every entry of  *)
(* an `async with`.  The synchronous code between two such places is one   *)
(* atomic step, as the event loop runs it.  The listener is a real thread: *)
(* each of its reads and writes of shared state is a step of its own, and  *)
(* so is each orchestrator access to the listener's state.                 *)
(*                                                                         *)
(* Numbers.  Delays are held in hundredths of a second (0.25 s = 25): all  *)
(* values the program produces are multiples of 0.25 below 4, which binary *)
(* floating point represents and adds exactly, so integer arithmetic is    *)
(* the program's arithmetic.  Latencies are in milliseconds.               *)
(***************************************************************************)
EXTENDS Integers, Sequences, FiniteSets, TLC

\* ------------------------------------------------------------ constants
MAX_TARGETS == 20
WINDOW_SIZE == 5
DEFAULT_DELAY == 50
MIN_DELAY == 25
MAX_DELAY == 250
DELAY_STEP == 25

\* latency_ms: Optional[float] = None
NoLatency == -1

\* ------------------------------------------------------------ bounds
\* number of addresses of the full-system specification
NumTargets == 2
\* probe attempts observed per address (caps the sent counter)
MaxSent == 2
\* the same in the terminal specification
TtySent == 1
\* the same in the gate specification
GateSent == 1
\* '+'/'-' key presses observed in a run
MaxKeys == 2
\* number of addresses of the all-reachable and blocked-probe specifications
UpTargets == 3
\* adjustments applied in the delay-controller specification
MaxAdjust == 10

\* latencies the ping output may carry, in ms
Latencies == {10}

VARIABLES
  addresses,        \* the targets, 1..n in input order
  reach,            \* per address: what its probes can answer (environment)
  supported,        \* EscapeListener._supported: stdin is a tty
  budget,           \* probe attempts observed per address (bound of the run)
  stat,             \* per address: PingStats
  folded,           \* history: per address, how often lines 414-416 ran
  wpc,              \* per address: where its ping_worker task is
  sleep_for,        \* per address: the delay its current sleep was given
  semaphore,        \* asyncio.Semaphore._value: free permits
  display_lock,     \* asyncio.Lock._locked
  stop_event,       \* asyncio.Event stop_event
  delay,            \* delay_controller.value
  opc,              \* where monitor_addresses is
  adjusted,         \* local `adjusted` of monitor_addresses
  propagating,      \* an exception is leaving monitor_addresses' try block
  stopped_by_escape,\* local `stopped_by_escape`
  lpc,              \* where the listener thread is
  l_stop,           \* EscapeListener._stop
  escape_pressed,   \* EscapeListener._escape_pressed
  adjustments,      \* EscapeListener._adjustments (deque)
  terminal,         \* mode of the controlling terminal
  queued,           \* history: every direction _queue_adjustment appended
  applied           \* history: every direction handed to adjust()

vars == <<addresses, reach, supported, budget, stat, folded, wpc, sleep_for, semaphore,
          display_lock, stop_event, delay, opc, adjusted, propagating,
          stopped_by_escape, lpc, l_stop, escape_pressed, adjustments,
          terminal, queued, applied>>

workerVars == <<stat, folded, wpc, sleep_for, semaphore>>
orchVars == <<opc, adjusted, propagating, stopped_by_escape>>
listenerVars == <<lpc, l_stop, escape_pressed, adjustments, terminal, queued>>
envVars == <<addresses, reach, supported, budget>>

\* ------------------------------------------------------------ data
\* PingStats(addr): sent 0, received 0, latency None, last_success False
PingStats == [sent |-> 0, received |-> 0, latency_ms |-> NoLatency,
              last_success |-> FALSE]

\* PingResult.success
success(result) == result.received > 0 /\ ~result.error

\* PingStats.success_rate, in thousandths of a percent
success_rate(s) ==
  IF s.sent = 0 THEN 0 ELSE (s.received * 100000) \div s.sent

\* ping_target with line 269 reading `if latency is None`
ping_target_zeroed(ok, parsed) ==
  [sent |-> 1,
   received |-> IF ok THEN 1 ELSE 0,
   latency_ms |-> IF parsed = NoLatency THEN 0 ELSE parsed,
   error |-> ~ok]

\* ping_target after the subprocess ended: ok is returncode == 0, parsed is
\* what parse_latency_ms found in the output.  The early returns of lines
\* 257 and 264 (unsupported OS, no ping command) give the same result as
\* ok = FALSE with nothing parsed; error stands for "an error text is set".
ping_target(ok, parsed) ==
  [sent |-> 1,
   received |-> IF ok THEN 1 ELSE 0,
   latency_ms |-> IF ok /\ parsed = NoLatency THEN 0 ELSE parsed,
   error |-> ~ok]

\* the answers a target of each kind can give: <<returncode == 0, parsed>>;
\* the ping process of a "hung" target never ends
RawResults(kind) ==
  CASE kind = "up"    -> {<<TRUE, l>> : l \in Latencies \cup {NoLatency}}
    [] kind = "down"  -> {<<FALSE, NoLatency>>}
    [] kind = "flaky" -> {<<TRUE, l>> : l \in Latencies \cup {NoLatency}}
                         \cup {<<FALSE, l>> : l \in Latencies \cup {NoLatency}}
    [] kind = "steady" -> {<<TRUE, l>> : l \in Latencies}
    [] kind = "hung" -> {}

\* the upper clamp left out: max(MIN_DELAY, value + delta)
adjust_unclamped(value, delta) ==
  IF value + delta < MIN_DELAY THEN MIN_DELAY ELSE value + delta
\* min and max exchanged: min(MIN_DELAY, max(MAX_DELAY, value + delta))
adjust_swapped(value, delta) ==
  LET m == IF MAX_DELAY > value + delta THEN MAX_DELAY ELSE value + delta
  IN  IF MIN_DELAY < m THEN MIN_DELAY ELSE m
\* DelayController.adjust: max(MIN_DELAY, min(MAX_DELAY, value + delta))
adjust(value, delta) ==
  LET m == IF MAX_DELAY < value + delta THEN MAX_DELAY ELSE value + delta
  IN  IF MIN_DELAY > m THEN MIN_DELAY ELSE m

\* display_results lines 329-336, one row: sent/received, the success rate
\* as f"{:.0f}%" (to the nearest percent; no tie arises below 8 attempts),
\* the latency as f"{:.1f}" in tenths of a ms or "N/A", and the colour the
\* row gets on a terminal
display_row(s, stdout_tty) ==
  [sent |-> s.sent,
   received |-> s.received,
   success_pct |-> (success_rate(s) + 500) \div 1000,
   latency |-> IF s.latency_ms # NoLatency
                 THEN [text |-> "ms", tenths |-> s.latency_ms * 10]
                 ELSE [text |-> "N/A", tenths |-> 0],
   colour |-> IF s.sent > 0 /\ stdout_tty
                THEN (IF s.last_success THEN "green" ELSE "red")
                ELSE "plain"]

\* display_results lines 315-338: the frame written, rows in input order
display_results(stats, delay_seconds, initial, stdout_tty) ==
  [head |-> IF stdout_tty THEN (IF initial THEN "clear" ELSE "home")
            ELSE "append",
   delay |-> delay_seconds,
   rows |-> [w \in DOMAIN stats |-> display_row(stats[w], stdout_tty)]]

Done(w) == wpc[w] \in {"Stopped", "Failed", "Cancelled"}

\* ------------------------------------------------------------ ping_worker
\* line 408: while not stop_event.is_set()
WorkerLoop(w) ==
  /\ wpc[w] = "Idle"
  /\ IF stop_event
       THEN wpc' = [wpc EXCEPT ![w] = "Stopped"]
       ELSE /\ stat[w].sent < budget[w]
            /\ wpc' = [wpc EXCEPT ![w] = "WaitGate"]
  /\ UNCHANGED <<stat, sleep_for, semaphore, display_lock, stop_event, delay,
                 applied>>
  /\ UNCHANGED <<orchVars, listenerVars, envVars>>
  /\ UNCHANGED folded

\* line 409 with a gate that never blocks
AcquireGate_unbounded(w) ==
  /\ wpc[w] = "WaitGate"
  /\ semaphore' = semaphore - 1
  /\ wpc' = [wpc EXCEPT ![w] = "Admitted"]
  /\ UNCHANGED <<stat, sleep_for, display_lock, stop_event, delay, applied>>
  /\ UNCHANGED <<orchVars, listenerVars, envVars>>
  /\ UNCHANGED folded

\* line 409 with a gate of one permit: no probe beside another
AcquireGate_single(w) ==
  /\ wpc[w] = "WaitGate"
  /\ semaphore = WINDOW_SIZE
  /\ semaphore' = semaphore - 1
  /\ wpc' = [wpc EXCEPT ![w] = "Admitted"]
  /\ UNCHANGED <<stat, sleep_for, display_lock, stop_event, delay, applied>>
  /\ UNCHANGED <<orchVars, listenerVars, envVars>>
  /\ UNCHANGED folded

\* line 409: async with semaphore -- the permit is taken when one is free
AcquireGate(w) ==
  /\ wpc[w] = "WaitGate"
  /\ semaphore > 0
  /\ semaphore' = semaphore - 1
  /\ wpc' = [wpc EXCEPT ![w] = "Admitted"]
  /\ UNCHANGED <<stat, sleep_for, display_lock, stop_event, delay, applied>>
  /\ UNCHANGED <<orchVars, listenerVars, envVars>>
  /\ UNCHANGED folded

\* lines 410-413 with the stop re-check left out
Admit_norecheck(w) ==
  /\ wpc[w] = "Admitted"
  /\ stat' = [stat EXCEPT ![w].sent = @ + 1]
  /\ wpc' = [wpc EXCEPT ![w] = "Probing"]
  /\ UNCHANGED <<sleep_for, semaphore, display_lock, stop_event, delay, applied>>
  /\ UNCHANGED <<orchVars, listenerVars, envVars>>
  /\ UNCHANGED folded

\* lines 410-413 with line 412 left out: the attempt is not counted
Admit_uncounted(w) ==
  /\ wpc[w] = "Admitted"
  /\ IF stop_event
       THEN /\ semaphore' = semaphore + 1
            /\ wpc' = [wpc EXCEPT ![w] = "Stopped"]
       ELSE /\ wpc' = [wpc EXCEPT ![w] = "Probing"]
            /\ semaphore' = semaphore
  /\ UNCHANGED <<stat, sleep_for, display_lock, stop_event, delay, applied>>
  /\ UNCHANGED <<orchVars, listenerVars, envVars>>
  /\ UNCHANGED folded

\* lines 410-413 with the break leaving the permit taken
Admit_leaky(w) ==
  /\ wpc[w] = "Admitted"
  /\ IF stop_event
       THEN /\ semaphore' = semaphore
            /\ wpc' = [wpc EXCEPT ![w] = "Stopped"]
            /\ stat' = stat
       ELSE /\ stat' = [stat EXCEPT ![w].sent = @ + 1]
            /\ wpc' = [wpc EXCEPT ![w] = "Probing"]
            /\ semaphore' = semaphore
  /\ UNCHANGED <<sleep_for, display_lock, stop_event, delay, applied>>
  /\ UNCHANGED <<orchVars, listenerVars, envVars>>
  /\ UNCHANGED folded

\* lines 410-413: re-check stop_event under the permit; break releases the
\* permit (the async with exits); otherwise count the attempt and start it
Admit(w) ==
  /\ wpc[w] = "Admitted"
  /\ IF stop_event
       THEN /\ semaphore' = semaphore + 1
            /\ wpc' = [wpc EXCEPT ![w] = "Stopped"]
            /\ stat' = stat
       ELSE /\ stat' = [stat EXCEPT ![w].sent = @ + 1]
            /\ wpc' = [wpc EXCEPT ![w] = "Probing"]
            /\ semaphore' = semaphore
  /\ UNCHANGED <<sleep_for, display_lock, stop_event, delay, applied>>
  /\ UNCHANGED <<orchVars, listenerVars, envVars>>
  /\ UNCHANGED folded

\* lines 413-416 with line 416 left out: the flag of an older attempt stays
ProbeReturns_torn(w) ==
  /\ wpc[w] = "Probing"
  /\ \E raw \in RawResults(reach[w]) :
       LET result == ping_target(raw[1], raw[2])
       IN  stat' = [stat EXCEPT ![w].received = @ + result.received,
                                ![w].latency_ms = result.latency_ms]
  /\ semaphore' = semaphore + 1
  /\ wpc' = [wpc EXCEPT ![w] = "WaitDisplay"]
  /\ UNCHANGED <<sleep_for, display_lock, stop_event, delay, applied>>
  /\ UNCHANGED <<orchVars, listenerVars, envVars>>
  /\ folded' = [folded EXCEPT ![w] = @ + 1]

\* lines 413-416 with the result's own sent added as well
ProbeReturns_recounted(w) ==
  /\ wpc[w] = "Probing"
  /\ \E raw \in RawResults(reach[w]) :
       LET result == ping_target(raw[1], raw[2])
       IN  stat' = [stat EXCEPT ![w].sent = @ + result.sent,
                                ![w].received = @ + result.received,
                                ![w].latency_ms = result.latency_ms,
                                ![w].last_success = success(result)]
  /\ semaphore' = semaphore + 1
  /\ wpc' = [wpc EXCEPT ![w] = "WaitDisplay"]
  /\ UNCHANGED <<sleep_for, display_lock, stop_event, delay, applied>>
  /\ UNCHANGED <<orchVars, listenerVars, envVars>>
  /\ folded' = [folded EXCEPT ![w] = @ + 1]

\* lines 413-416 with line 414 left out: the reply is not counted
ProbeReturns_uncounted(w) ==
  /\ wpc[w] = "Probing"
  /\ \E raw \in RawResults(reach[w]) :
       LET result == ping_target(raw[1], raw[2])
       IN  stat' = [stat EXCEPT ![w].latency_ms = result.latency_ms,
                                ![w].last_success = success(result)]
  /\ semaphore' = semaphore + 1
  /\ wpc' = [wpc EXCEPT ![w] = "WaitDisplay"]
  /\ UNCHANGED <<sleep_for, display_lock, stop_event, delay, applied>>
  /\ UNCHANGED <<orchVars, listenerVars, envVars>>
  /\ folded' = [folded EXCEPT ![w] = @ + 1]

\* lines 413-416: ping_target returns; the async with releases the permit;
\* the outcome is folded into the statistics
ProbeReturns(w) ==
  /\ wpc[w] = "Probing"
  /\ \E raw \in RawResults(reach[w]) :
       LET result == ping_target(raw[1], raw[2])
       IN  stat' = [stat EXCEPT ![w].received = @ + result.received,
                                ![w].latency_ms = result.latency_ms,
                                ![w].last_success = success(result)]
  /\ semaphore' = semaphore + 1
  /\ wpc' = [wpc EXCEPT ![w] = "WaitDisplay"]
  /\ UNCHANGED <<sleep_for, display_lock, stop_event, delay, applied>>
  /\ UNCHANGED <<orchVars, listenerVars, envVars>>
  /\ folded' = [folded EXCEPT ![w] = @ + 1]

\* line 413: ping_target raises (create_subprocess_exec fails with an error
\* other than FileNotFoundError); the async with releases the permit and the
\* exception ends the task
ProbeRaises(w) ==
  /\ wpc[w] = "Probing"
  /\ semaphore' = semaphore + 1
  /\ wpc' = [wpc EXCEPT ![w] = "Failed"]
  /\ UNCHANGED <<stat, sleep_for, display_lock, stop_event, delay, applied>>
  /\ UNCHANGED <<orchVars, listenerVars, envVars>>
  /\ UNCHANGED folded

\* line 417 without the lock: the worker renders whoever else is rendering
AcquireDisplay_nolock(w) ==
  /\ wpc[w] = "WaitDisplay"
  /\ display_lock' = TRUE
  /\ wpc' = [wpc EXCEPT ![w] = "Rendering"]
  /\ UNCHANGED <<stat, sleep_for, semaphore, stop_event, delay, applied>>
  /\ UNCHANGED <<orchVars, listenerVars, envVars>>
  /\ UNCHANGED folded

\* line 417: async with display_lock
AcquireDisplay(w) ==
  /\ wpc[w] = "WaitDisplay"
  /\ ~display_lock
  /\ display_lock' = TRUE
  /\ wpc' = [wpc EXCEPT ![w] = "Rendering"]
  /\ UNCHANGED <<stat, sleep_for, semaphore, stop_event, delay, applied>>
  /\ UNCHANGED <<orchVars, listenerVars, envVars>>
  /\ UNCHANGED folded

\* lines 418-421 with the check of line 419 left out
Render_nocheck(w) ==
  /\ wpc[w] = "Rendering"
  /\ display_lock' = FALSE
  /\ wpc' = [wpc EXCEPT ![w] = "Sleeping"]
  /\ sleep_for' = [sleep_for EXCEPT ![w] = delay]
  /\ UNCHANGED <<stat, semaphore, stop_event, delay, applied>>
  /\ UNCHANGED <<orchVars, listenerVars, envVars>>
  /\ UNCHANGED folded

\* lines 418-421 with the delay read once, when the task was created
Render_cached(w) ==
  /\ wpc[w] = "Rendering"
  /\ display_lock' = FALSE
  /\ IF stop_event
       THEN /\ wpc' = [wpc EXCEPT ![w] = "Stopped"]
            /\ sleep_for' = sleep_for
       ELSE /\ wpc' = [wpc EXCEPT ![w] = "Sleeping"]
            /\ sleep_for' = [sleep_for EXCEPT ![w] = DEFAULT_DELAY]
  /\ UNCHANGED <<stat, semaphore, stop_event, delay, applied>>
  /\ UNCHANGED <<orchVars, listenerVars, envVars>>
  /\ UNCHANGED folded

\* lines 418-421: display_results, the lock is released, stop_event is
\* checked, and the sleep begins with the delay read at that moment
Render(w) ==
  /\ wpc[w] = "Rendering"
  /\ display_lock' = FALSE
  /\ IF stop_event
       THEN /\ wpc' = [wpc EXCEPT ![w] = "Stopped"]
            /\ sleep_for' = sleep_for
       ELSE /\ wpc' = [wpc EXCEPT ![w] = "Sleeping"]
            /\ sleep_for' = [sleep_for EXCEPT ![w] = delay]
  /\ UNCHANGED <<stat, semaphore, stop_event, delay, applied>>
  /\ UNCHANGED <<orchVars, listenerVars, envVars>>
  /\ UNCHANGED folded

\* line 421: the sleep ends
Wake(w) ==
  /\ wpc[w] = "Sleeping"
  /\ wpc' = [wpc EXCEPT ![w] = "Idle"]
  /\ sleep_for' = [sleep_for EXCEPT ![w] = 0]
  /\ UNCHANGED <<stat, semaphore, display_lock, stop_event, delay, applied>>
  /\ UNCHANGED <<orchVars, listenerVars, envVars>>
  /\ UNCHANGED folded

\* line 418: display_results raises (the write to stdout fails); the async
\* with releases the lock and the exception ends the task
RenderRaises(w) ==
  /\ wpc[w] = "Rendering"
  /\ display_lock' = FALSE
  /\ wpc' = [wpc EXCEPT ![w] = "Failed"]
  /\ UNCHANGED <<stat, sleep_for, semaphore, stop_event, delay, applied>>
  /\ UNCHANGED <<orchVars, listenerVars, envVars>>
  /\ UNCHANGED folded

\* ------------------------------------------------------------ EscapeListener
\* consume_adjustment: <<what it returns, the deque afterwards>>; 0 is None
consume_newest(q) ==
  IF q # <<>> THEN <<q[Len(q)], SubSeq(q, 1, Len(q) - 1)>> ELSE <<0, q>>
consume_adjustment(q) ==
  IF q # <<>> THEN <<Head(q), Tail(q)>> ELSE <<0, q>>

\* _queue_adjustment
queue_adjustment(q, direction) == Append(q, direction)

\* start(): the thread exists only when stdin is a tty
ThreadAlive == lpc \in {"setup", "check", "select", "finally"}

\* The thread runs _run_posix (os.name is not "nt").
\* _run_posix lines 127-139: tcgetattr, then cbreak mode
ListenerSetup ==
  /\ lpc = "setup"
  /\ terminal' = "cbreak"
  /\ lpc' = "check"
  /\ UNCHANGED <<l_stop, escape_pressed, adjustments, queued>>
  /\ UNCHANGED <<workerVars, orchVars, envVars, display_lock, stop_event,
                 delay, applied>>

\* lines 127-137: the import or tcgetattr fails: return before cbreak
ListenerSetupFails ==
  /\ lpc = "setup"
  /\ lpc' = "ended"
  /\ UNCHANGED <<l_stop, escape_pressed, adjustments, queued, terminal>>
  /\ UNCHANGED <<workerVars, orchVars, envVars, display_lock, stop_event,
                 delay, applied>>

\* line 140: while not self._stop.is_set(); leaving enters the finally
ListenerCheck ==
  /\ lpc = "check"
  /\ lpc' = IF l_stop THEN "finally" ELSE "select"
  /\ UNCHANGED <<l_stop, escape_pressed, adjustments, queued, terminal>>
  /\ UNCHANGED <<workerVars, orchVars, envVars, display_lock, stop_event,
                 delay, applied>>

\* lines 141-143: select times out
ListenerTimeout ==
  /\ lpc = "select"
  /\ lpc' = "check"
  /\ UNCHANGED <<l_stop, escape_pressed, adjustments, queued, terminal>>
  /\ UNCHANGED <<workerVars, orchVars, envVars, display_lock, stop_event,
                 delay, applied>>

\* lines 145-149 and _handle_key: a key is read
ListenerKey(key) ==
  /\ lpc = "select"
  /\ CASE key = "esc" ->
            /\ escape_pressed' = TRUE
            /\ l_stop' = TRUE
            /\ lpc' = "finally"
            /\ UNCHANGED <<adjustments, queued, terminal>>
       [] key \in {"+", "-"} ->
            LET direction == IF key = "+" THEN 1 ELSE -1
            IN  /\ Len(queued) < MaxKeys
                /\ adjustments' = queue_adjustment(adjustments, direction)
                /\ queued' = Append(queued, direction)
                /\ lpc' = "check"
                /\ UNCHANGED <<escape_pressed, l_stop, terminal>>
       [] OTHER ->
            /\ lpc' = "check"
            /\ UNCHANGED <<escape_pressed, l_stop, terminal, adjustments, queued>>
  /\ UNCHANGED <<workerVars, orchVars, envVars, display_lock, stop_event,
                 delay, applied>>

\* lines 144-147: os.read fails: break, then the finally
ListenerReadError ==
  /\ lpc = "select"
  /\ lpc' = "finally"
  /\ UNCHANGED <<l_stop, escape_pressed, adjustments, queued, terminal>>
  /\ UNCHANGED <<workerVars, orchVars, envVars, display_lock, stop_event,
                 delay, applied>>

\* lines 150-151 left out: the thread ends without tcsetattr
ListenerRestore_skipped ==
  /\ lpc = "finally"
  /\ lpc' = "ended"
  /\ UNCHANGED <<l_stop, escape_pressed, adjustments, queued, terminal>>
  /\ UNCHANGED <<workerVars, orchVars, envVars, display_lock, stop_event,
                 delay, applied>>

\* lines 150-151: the finally restores the settings read at line 135 and the
\* thread ends
ListenerRestore ==
  /\ lpc = "finally"
  /\ terminal' = "orig"
  /\ lpc' = "ended"
  /\ UNCHANGED <<l_stop, escape_pressed, adjustments, queued>>
  /\ UNCHANGED <<workerVars, orchVars, envVars, display_lock, stop_event,
                 delay, applied>>

\* ------------------------------------------------------------ monitor_addresses
\* lines 345-370: listener.start(), the initial render (no worker exists
\* yet), the gate, the lock, the event, one task per address, and the first
\* test of the loop condition
OrchStart ==
  /\ opc = "start"
  /\ lpc' = IF supported THEN "setup" ELSE "none"
  /\ wpc' = [w \in addresses |-> "Idle"]
  /\ adjusted' = FALSE
  /\ opc' = "drain"
  /\ UNCHANGED <<stat, folded, sleep_for, semaphore, display_lock, stop_event,
                 delay, applied, propagating, stopped_by_escape, envVars>>
  /\ UNCHANGED <<l_stop, escape_pressed, adjustments, terminal, queued>>

\* lines 372-376 with a break after line 376: one adjustment per iteration
OrchConsume_single ==
  /\ opc = "drain"
  /\ LET r == consume_adjustment(adjustments)
     IN  /\ adjustments' = r[2]
         /\ IF r[1] = 0
              THEN /\ opc' = "refresh"
                   /\ UNCHANGED <<delay, adjusted, applied>>
              ELSE /\ delay' = adjust(delay, r[1] * DELAY_STEP)
                   /\ adjusted' = TRUE
                   /\ applied' = Append(applied, r[1])
                   /\ opc' = "refresh"
  /\ UNCHANGED <<propagating, stopped_by_escape, display_lock, stop_event>>
  /\ UNCHANGED <<workerVars, envVars, lpc, l_stop, escape_pressed, terminal,
                 queued>>

\* lines 372-376: one turn of the drain loop
OrchConsume ==
  /\ opc = "drain"
  /\ LET r == consume_adjustment(adjustments)
     IN  /\ adjustments' = r[2]
         /\ IF r[1] = 0
              THEN /\ opc' = "refresh"
                   /\ UNCHANGED <<delay, adjusted, applied>>
              ELSE /\ delay' = adjust(delay, r[1] * DELAY_STEP)
                   /\ adjusted' = TRUE
                   /\ applied' = Append(applied, r[1])
                   /\ opc' = "drain"
  /\ UNCHANGED <<propagating, stopped_by_escape, display_lock, stop_event>>
  /\ UNCHANGED <<workerVars, envVars, lpc, l_stop, escape_pressed, terminal,
                 queued>>

\* line 377: nothing was adjusted
OrchSkipRefresh ==
  /\ opc = "refresh"
  /\ ~adjusted
  /\ opc' = "check"
  /\ UNCHANGED <<adjusted, propagating, stopped_by_escape, display_lock,
                 stop_event, delay, applied>>
  /\ UNCHANGED <<workerVars, envVars, listenerVars>>

\* lines 377-378: async with display_lock
OrchAcquireDisplay ==
  /\ opc = "refresh"
  /\ adjusted
  /\ ~display_lock
  /\ display_lock' = TRUE
  /\ opc' = "render"
  /\ UNCHANGED <<adjusted, propagating, stopped_by_escape, stop_event, delay,
                 applied>>
  /\ UNCHANGED <<workerVars, envVars, listenerVars>>

\* line 379: display_results, then the lock is released
OrchRender ==
  /\ opc = "render"
  /\ display_lock' = FALSE
  /\ opc' = "check"
  /\ UNCHANGED <<adjusted, propagating, stopped_by_escape, stop_event, delay,
                 applied>>
  /\ UNCHANGED <<workerVars, envVars, listenerVars>>

\* line 379: display_results raises; the lock is released; no except clause
\* matches, so the finally runs with the exception pending
OrchRenderRaises ==
  /\ opc = "render"
  /\ display_lock' = FALSE
  /\ propagating' = TRUE
  /\ opc' = "finally"
  /\ UNCHANGED <<adjusted, stopped_by_escape, stop_event, delay, applied>>
  /\ UNCHANGED <<workerVars, envVars, listenerVars>>

\* lines 380-384: escape pressed: set stop_event and break; else sleep 0.1
OrchCheckPressed ==
  /\ opc = "check"
  /\ IF escape_pressed
       THEN /\ stopped_by_escape' = TRUE
            /\ stop_event' = TRUE
            /\ opc' = "finally"
       ELSE /\ opc' = "sleep"
            /\ UNCHANGED <<stopped_by_escape, stop_event>>
  /\ UNCHANGED <<adjusted, propagating, display_lock, delay, applied>>
  /\ UNCHANGED <<workerVars, envVars, listenerVars>>

\* lines 384, 369-370: the sleep ends and the loop condition is tested
OrchWake ==
  /\ opc = "sleep"
  /\ IF stop_event
       THEN opc' = "finally" /\ adjusted' = adjusted
       ELSE opc' = "drain" /\ adjusted' = FALSE
  /\ UNCHANGED <<propagating, stopped_by_escape, display_lock, stop_event,
                 delay, applied>>
  /\ UNCHANGED <<workerVars, envVars, listenerVars>>

\* lines 385-387: KeyboardInterrupt raised inside the try block, at any place
\* of the control loop; leaving the async with of line 378 releases the lock
KeyboardInterrupt ==
  /\ opc \in {"drain", "refresh", "render", "check", "sleep"}
  /\ display_lock' = IF opc = "render" THEN FALSE ELSE display_lock
  /\ stop_event' = TRUE
  /\ opc' = "finally"
  /\ UNCHANGED <<adjusted, propagating, stopped_by_escape, delay, applied>>
  /\ UNCHANGED <<workerVars, envVars, listenerVars>>

\* line 389 with the event reset for a later run
OrchStopListener_reset ==
  /\ opc = "finally"
  /\ l_stop' = TRUE
  /\ stop_event' = FALSE
  /\ opc' = "join"
  /\ UNCHANGED <<adjusted, propagating, stopped_by_escape, display_lock,
                 delay, applied>>
  /\ UNCHANGED <<workerVars, envVars, lpc, escape_pressed, adjustments,
                 terminal, queued>>

\* line 389 and stop() line 94: self._stop.set()
OrchStopListener ==
  /\ opc = "finally"
  /\ l_stop' = TRUE
  /\ opc' = "join"
  /\ UNCHANGED <<adjusted, propagating, stopped_by_escape, display_lock,
                 stop_event, delay, applied>>
  /\ UNCHANGED <<workerVars, envVars, lpc, escape_pressed, adjustments,
                 terminal, queued>>

\* stop() lines 95-96: join the thread if there is a live one; then the
\* pending exception, if any, leaves monitor_addresses
OrchJoin ==
  /\ opc = "join"
  /\ ~ThreadAlive
  /\ opc' = IF propagating THEN "raised" ELSE "gather"
  /\ UNCHANGED <<adjusted, propagating, stopped_by_escape, display_lock,
                 stop_event, delay, applied>>
  /\ UNCHANGED <<workerVars, envVars, listenerVars>>

\* asyncio.gather(*workers, return_exceptions=...): "wait" while it is not
\* finished, "raise" when it re-raises a worker's exception, else "return"
gather(return_exceptions) ==
  IF ~return_exceptions /\ \E w \in addresses : wpc[w] = "Failed" THEN "raise"
  ELSE IF \A w \in addresses : Done(w) THEN "return"
  ELSE "wait"

\* line 390 with return_exceptions left at its default
GatherWorkers_propagate == gather(FALSE)
\* line 390
GatherWorkers == gather(TRUE)

\* lines 390-396: await the workers, then return (the farewell and the wait
\* for Enter of lines 391-396 change no state of the engine)
OrchGather ==
  /\ opc = "gather"
  /\ GatherWorkers # "wait"
  /\ opc' = IF GatherWorkers = "raise" THEN "raised" ELSE "returned"
  /\ UNCHANGED <<adjusted, propagating, stopped_by_escape, display_lock,
                 stop_event, delay, applied>>
  /\ UNCHANGED <<workerVars, envVars, listenerVars>>

\* main() line 426: asyncio.run cancels the tasks still pending when
\* monitor_addresses ended with an exception; a cancelled task leaves its
\* async with blocks
RunnerCancel(w) ==
  /\ opc = "raised"
  /\ ~Done(w)
  /\ wpc' = [wpc EXCEPT ![w] = "Cancelled"]
  /\ semaphore' = IF wpc[w] \in {"Admitted", "Probing"}
                    THEN semaphore + 1 ELSE semaphore
  /\ display_lock' = IF wpc[w] = "Rendering" THEN FALSE ELSE display_lock
  /\ sleep_for' = [sleep_for EXCEPT ![w] = 0]
  /\ UNCHANGED <<stat, folded, stop_event, delay, applied>>
  /\ UNCHANGED <<orchVars, listenerVars, envVars>>

\* ------------------------------------------------------------ specifications
\* the state after line 344: statistics and listener constructed
ConstructEach(kinds, tty, cap) ==
  /\ Len(kinds) \in 1..MAX_TARGETS
  /\ addresses = DOMAIN kinds
  /\ reach = kinds
  /\ supported = tty
  /\ budget = [w \in DOMAIN kinds |-> cap]
  /\ stat = [w \in DOMAIN kinds |-> PingStats]
  /\ folded = [w \in DOMAIN kinds |-> 0]
  /\ wpc = [w \in DOMAIN kinds |-> "Unborn"]
  /\ sleep_for = [w \in DOMAIN kinds |-> 0]
  /\ semaphore = WINDOW_SIZE
  /\ display_lock = FALSE
  /\ stop_event = FALSE
  /\ delay = DEFAULT_DELAY
  /\ opc = "start"
  /\ adjusted = FALSE
  /\ propagating = FALSE
  /\ stopped_by_escape = FALSE
  /\ lpc = "none"
  /\ l_stop = FALSE
  /\ escape_pressed = FALSE
  /\ adjustments = <<>>
  /\ terminal = "orig"
  /\ queued = <<>>
  /\ applied = <<>>

\* the same with every address of one kind
Construct(n, tty, kind, cap) == ConstructEach([w \in 1..n |-> kind], tty, cap)

WorkerStep(w) ==
  \/ WorkerLoop(w)
  \/ AcquireGate(w)
  \/ Admit(w)
  \/ ProbeReturns(w)
  \/ ProbeRaises(w)
  \/ AcquireDisplay(w)
  \/ Render(w)
  \/ RenderRaises(w)
  \/ Wake(w)

ListenerStep ==
  \/ ListenerSetup
  \/ ListenerSetupFails
  \/ ListenerCheck
  \/ ListenerTimeout
  \/ \E key \in {"esc", "+", "-", "x"} : ListenerKey(key)
  \/ ListenerReadError
  \/ ListenerRestore

OrchStep ==
  \/ OrchStart
  \/ OrchConsume
  \/ OrchSkipRefresh
  \/ OrchAcquireDisplay
  \/ OrchRender
  \/ OrchRenderRaises
  \/ OrchCheckPressed
  \/ OrchWake
  \/ KeyboardInterrupt
  \/ OrchStopListener
  \/ OrchJoin
  \/ OrchGather

\* the whole program on a terminal
Init == Construct(NumTargets, TRUE, "steady", TtySent)

Next ==
  \/ OrchStep
  \/ ListenerStep
  \/ \E w \in addresses : WorkerStep(w)
  \/ \E w \in addresses : RunnerCancel(w)

Spec == Init /\ [][Next]_vars

\* the program with stdin not a terminal: listener.start() is a no-op, no
\* key is ever read, and only KeyboardInterrupt ends the control loop
OrchStepNoTty ==
  \/ OrchStart
  \/ OrchConsume
  \/ OrchSkipRefresh
  \/ OrchCheckPressed
  \/ OrchWake
  \/ KeyboardInterrupt
  \/ OrchStopListener
  \/ OrchJoin
  \/ OrchGather

NextNoTty ==
  \/ OrchStepNoTty
  \/ \E w \in addresses : WorkerStep(w)

InitNoTty == Construct(NumTargets, FALSE, "flaky", MaxSent)

SpecNoTty == InitNoTty /\ [][NextNoTty]_vars

\* every address unreachable, stdin not a terminal
InitDown == Construct(NumTargets, FALSE, "down", MaxSent)

SpecDown == InitDown /\ [][NextNoTty]_vars

\* one address more than the gate has permits; stdin not a terminal, no
\* interrupt, and neither a probe nor a write to stdout fails
WorkerStepQuiet(w) ==
  \/ WorkerLoop(w)
  \/ AcquireGate(w)
  \/ Admit(w)
  \/ ProbeReturns(w)
  \/ AcquireDisplay(w)
  \/ Render(w)
  \/ Wake(w)

NextGate ==
  \/ OrchStart
  \/ OrchConsume
  \/ OrchSkipRefresh
  \/ OrchCheckPressed
  \/ OrchWake
  \/ \E w \in addresses : WorkerStepQuiet(w)

InitGate == Construct(WINDOW_SIZE + 1, FALSE, "steady", GateSent)

SpecGate == InitGate /\ [][NextGate]_vars

\* DelayController alone: line 375 applied to any sequence of directions
ApplyAdjustment(direction) ==
  /\ Len(applied) < MaxAdjust
  /\ delay' = adjust(delay, direction * DELAY_STEP)
  /\ applied' = Append(applied, direction)
  /\ UNCHANGED <<workerVars, orchVars, listenerVars, envVars, display_lock,
                 stop_event>>

NextDelay == \E direction \in {1, -1} : ApplyAdjustment(direction)

SpecDelay == Init /\ [][NextDelay]_vars

\* the program on a terminal when no probe and no write to stdout raises,
\* every probe returns, and every task that can run is run
OrchStepLive ==
  \/ OrchStart
  \/ OrchConsume
  \/ OrchSkipRefresh
  \/ OrchAcquireDisplay
  \/ OrchRender
  \/ OrchCheckPressed
  \/ OrchWake
  \/ OrchStopListener
  \/ OrchJoin
  \/ OrchGather

NextLive ==
  \/ OrchStepLive
  \/ KeyboardInterrupt
  \/ ListenerStep
  \/ \E w \in addresses : WorkerStepQuiet(w)

SpecLive ==
  /\ Init
  /\ [][NextLive]_vars
  /\ WF_vars(OrchStepLive)
  /\ WF_vars(ListenerSetup \/ ListenerSetupFails)
  /\ WF_vars(ListenerCheck)
  /\ WF_vars(ListenerTimeout)
  /\ WF_vars(ListenerRestore)
  /\ \A w \in 1..NumTargets : WF_vars(WorkerStepQuiet(w))

\* ------------------------------------------------------------ properties
\* the workers that hold a gate permit
Holders == {w \in addresses : wpc[w] \in {"Admitted", "Probing"}}

\* the tasks inside the render-and-write step
Renderers == {w \in addresses : wpc[w] = "Rendering"}

\* C1: with one address more than the gate has permits, in every reachable
\* state at most WINDOW_SIZE (5) workers hold a gate permit, and the free
\* permits never go below zero.
C1_GateBound ==
  /\ Cardinality(Holders) <= WINDOW_SIZE
  /\ semaphore >= 0

\* C1's case: five workers hold the permits and a sixth waits at the gate
C1_GateFull ==
  /\ Cardinality(addresses) > WINDOW_SIZE
  /\ Cardinality(Holders) = WINDOW_SIZE
  /\ \E w \in addresses : wpc[w] = "WaitGate"

\* C2: once stop_event is set, no step increases any address's sent counter;
\* the only probe activity left is the completion of attempts already
\* counted.
C2_NoNewAttempt ==
  [][stop_event => \A w \in addresses : stat'[w].sent = stat[w].sent]_vars

\* C2's case: stop is set while a worker on its second cycle holds a fresh
\* permit and another has a probe in flight
C2_StopAtGate ==
  /\ stop_event
  /\ \E w \in addresses : wpc[w] = "Admitted" /\ stat[w].sent >= 1
  /\ \E w \in addresses : wpc[w] = "Probing"

\* C3: for every address 0 <= received <= sent, the success rate lies in
\* [0, 100] percent, and it is 0 while nothing was sent.
C3_ReceivedWithinSent ==
  \A w \in addresses :
    /\ 0 <= stat[w].received
    /\ stat[w].received <= stat[w].sent
    /\ 0 <= success_rate(stat[w])
    /\ success_rate(stat[w]) <= 100000
    /\ (stat[w].sent = 0 => success_rate(stat[w]) = 0)

\* C3's case: an address with a lost and an answered probe (rate 50%)
C3_MixedOutcomes ==
  \E w \in addresses :
    /\ stat[w].sent = 2
    /\ stat[w].received = 1
    /\ success_rate(stat[w]) = 50000

\* C4: under fair scheduling with every probe returning, once stop_event is
\* set every worker reaches Stopped and monitor_addresses returns; and
\* while stop_event is set no worker starts a probe or a sleep, and a
\* worker's display refresh is followed by Stopped.
C4_StopTerminates ==
  /\ stop_event ~> (opc = "returned" /\ \A w \in addresses : wpc[w] = "Stopped")
  /\ [][stop_event =>
          \A w \in addresses :
            /\ wpc'[w] = "Probing" => wpc[w] = "Probing"
            /\ wpc'[w] = "Sleeping" => wpc[w] = "Sleeping"
            /\ (wpc[w] = "Rendering" /\ wpc'[w] # "Rendering")
                 => wpc'[w] = "Stopped"]_vars

\* C4's case: stop was set while a worker was rendering its last refresh
C4_StopWhileRendering ==
  /\ stop_event
  /\ \E w \in addresses : wpc[w] = "Rendering"
  /\ \E w \in addresses : wpc[w] = "Sleeping"

\* C5: every adjustment leaves the delay within [MIN_DELAY, MAX_DELAY], and
\* an adjustment at a boundary that points outwards leaves it at the
\* boundary.
C5_DelayClamped ==
  [][/\ MIN_DELAY <= delay' /\ delay' <= MAX_DELAY
     /\ (delay = MAX_DELAY /\ applied' = Append(applied, 1))
          => delay' = MAX_DELAY
     /\ (delay = MIN_DELAY /\ applied' = Append(applied, -1))
          => delay' = MIN_DELAY]_vars

\* C5's case: a tenth '+' in a row, applied at the upper boundary
C5_SaturatedHigh ==
  /\ Len(applied) = 10
  /\ \A i \in 1..10 : applied[i] = 1
  /\ delay = MAX_DELAY

\* C6: from the default delay, one +1 step then one -1 step gives the
\* default delay again.
C6_StepRoundTrip ==
  applied = <<1, -1>> => delay = DEFAULT_DELAY

\* C6's case: the two steps were applied
C6_RoundTripDone ==
  /\ applied = <<1, -1>>
  /\ delay = DEFAULT_DELAY

\* C7: once stop_event is set it stays set.
C7_StopMonotonic ==
  [][stop_event => stop_event']_vars

\* C7's case: stop was set by escape and the program ran on to its return
C7_StoppedAndReturned ==
  /\ stop_event
  /\ stopped_by_escape
  /\ opc = "returned"

\* C8: at most one task is inside the render-and-write step, and the lock is
\* held exactly while a task is inside it, so no waiting, probing or
\* sleeping task holds it.
C8_RenderExclusive ==
  LET inside == Cardinality(Renderers) + (IF opc = "render" THEN 1 ELSE 0)
  IN  /\ inside <= 1
      /\ display_lock <=> inside = 1

\* C8's case: a worker renders while the orchestrator and another worker
\* wait for the lock
C8_Contended ==
  /\ \E w \in addresses : wpc[w] = "Rendering"
  /\ \E w \in addresses : wpc[w] = "WaitDisplay"
  /\ opc = "refresh"
  /\ adjusted

\* C9: wherever monitor_addresses has left its control loop, stop_event is
\* set; past the finally clause the listener is stopped; and it ends only
\* after every worker has ended.
C9_ExitStopsAll ==
  /\ opc \in {"finally", "join", "gather", "returned", "raised"} => stop_event
  /\ opc \in {"gather", "returned", "raised"} => l_stop /\ ~ThreadAlive
  /\ opc \in {"returned", "raised"} => \A w \in addresses : Done(w)

\* C10: a worker that ended with an exception holds no permit (the permits
\* held and the free permits add up to WINDOW_SIZE), monitor_addresses does
\* not end with an exception, and it returns only when every worker ended.
C10_FailureIsolated ==
  (\E w \in addresses : wpc[w] = "Failed") =>
    /\ semaphore + Cardinality(Holders) = WINDOW_SIZE
    /\ opc # "raised"
    /\ opc = "returned" => \A w \in addresses : Done(w)

\* C10's case: one worker failed in its probe, another went on to use up
\* its attempts and stopped, and monitor_addresses returned
C10_FailedAndReturned ==
  /\ opc = "returned"
  /\ \E w \in addresses : wpc[w] = "Failed" /\ stat[w].sent = 1
                           /\ stat[w].latency_ms = NoLatency
  /\ \E w \in addresses : wpc[w] = "Stopped" /\ stat[w].sent = budget[w]

\* three reachable addresses on a terminal, every probe answered in 10 ms
InitUp == Construct(UpTargets, TRUE, "steady", TtySent)

SpecUp == InitUp /\ [][NextLive]_vars

\* lines 372-376 run to the end on the deque q: the delay after draining
RECURSIVE drain(_, _)
drain(value, q) ==
  IF q = <<>> THEN value
  ELSE drain(adjust(value, Head(q) * DELAY_STEP), Tail(q))

\* the <<latency_ms, last_success>> pairs one probe outcome of a target of
\* this kind leaves in the statistics (lines 415-416)
Outcomes(kind) ==
  {<<ping_target(raw[1], raw[2]).latency_ms,
     success(ping_target(raw[1], raw[2]))>> : raw \in RawResults(kind)}

\* the control loop with stdin not a terminal and no interrupt
OrchStepIdle ==
  \/ OrchStart
  \/ OrchConsume
  \/ OrchSkipRefresh
  \/ OrchCheckPressed
  \/ OrchWake

\* the first address's ping process never ends, the others answer; stdin
\* is not a terminal and nothing stops the run
InitHung ==
  ConstructEach([w \in 1..UpTargets |-> IF w = 1 THEN "hung" ELSE "steady"],
                FALSE, MaxSent)

\* the event loop runs every task that is ready, and the ping process of
\* every address but the first ends
SpecHung ==
  /\ InitHung
  /\ [][NextGate]_vars
  /\ WF_vars(OrchStepIdle)
  /\ \A w \in 1..UpTargets : WF_vars(WorkerStepQuiet(w))

\* a task is inside the render-and-write step: the frame it writes is
\* display_results of the statistics of this state
Refreshing == Renderers # {} \/ opc = "render"

\* the frame a refresh in this state writes
Frame(stdout_tty) == display_results(stat, delay, FALSE, stdout_tty)

\* C11: for an address whose every probe is unanswered (received 0, an error,
\* no latency), in every state received is 0, the success rate is 0, the
\* latency is absent, and every row rendered for it shows 0% and N/A.
C11_DownStaysZero ==
  \A w \in addresses :
    /\ stat[w].received = 0
    /\ success_rate(stat[w]) = 0
    /\ stat[w].latency_ms = NoLatency
    /\ \A t \in BOOLEAN :
         /\ Frame(t).rows[w].success_pct = 0
         /\ Frame(t).rows[w].latency.text = "N/A"

\* C11's case: a refresh after the address's second unanswered probe
C11_DownAfterCycles ==
  /\ Refreshing
  /\ \E w \in addresses :
       /\ stat[w].sent >= 2
       /\ wpc[w] = "Rendering"
       /\ ~stat[w].last_success

\* the worker has counted an attempt (line 412) and not yet folded its
\* outcome (lines 414-416): it is suspended at line 413
InFlight(w) == wpc[w] = "Probing"

\* C12 as stated: with every probe answered, whenever a refresh observes the
\* statistics every address with sent >= 1 has received = sent and is shown
\* at 100%.
C12_AlwaysFull ==
  Refreshing =>
    \A w \in addresses :
      stat[w].sent >= 1 =>
        /\ stat[w].received = stat[w].sent
        /\ Frame(TRUE).rows[w].success_pct = 100

\* C12: with every probe answered, in every state an address with
\* sent >= 1 has received = sent and a 100% row unless its worker is
\* suspended in the probe (line 413), and then received = sent - 1.
C12_FullOnceFolded ==
  \A w \in addresses :
    stat[w].sent >= 1 =>
      IF InFlight(w)
        THEN stat[w].received = stat[w].sent - 1
        ELSE /\ stat[w].received = stat[w].sent
             /\ success_rate(stat[w]) = 100000
             /\ Frame(TRUE).rows[w].success_pct = 100

\* C12's case: one worker refreshes the display while a second address has
\* its first probe in flight and a third has its reply folded
C12_RefreshDuringProbe ==
  \E a, b, c \in addresses :
    /\ wpc[a] = "Rendering"
    /\ InFlight(b) /\ stat[b].sent = 1 /\ stat[b].received = 0
    /\ c # a /\ ~InFlight(c) /\ stat[c].received = 1
    /\ Frame(TRUE).rows[b].success_pct = 0
    /\ Frame(TRUE).rows[c].success_pct = 100

\* C13: the directions consume_adjustment has returned, followed by those
\* still in the deque, are the '+'/'-' presses in press order (none lost,
\* duplicated or reordered); consume_adjustment reports none pending exactly
\* when the deque is empty; the delay is the default stepped and clamped by
\* the consumed directions in that order.
C13_Fifo ==
  /\ queued = applied \o adjustments
  /\ (consume_adjustment(adjustments)[1] = 0) <=> (adjustments = <<>>)
  /\ delay = drain(DEFAULT_DELAY, applied)

\* C13's case: '-' then '+' were pressed, both were pending at once or in
\* turn, and both have been consumed, '-' first
C13_TwoConsumed ==
  /\ queued = <<-1, 1>>
  /\ applied = <<-1, 1>>
  /\ adjustments = <<>>
  /\ delay = DEFAULT_DELAY

\* C14: once exactly one '+' has been consumed the delay is the default
\* plus one step (0.75 s), and every sleep a worker begins is given the
\* delay of the moment it begins.
C14_FreshDelay ==
  [][/\ applied' = <<1>> => delay' = DEFAULT_DELAY + DELAY_STEP
     /\ \A w \in addresses :
          (wpc[w] # "Sleeping" /\ wpc'[w] = "Sleeping") =>
            sleep_for'[w] = delay']_vars

\* C14's case: after the '+' was applied one worker sleeps 0.75 s while a
\* worker whose sleep began before still sleeps the default
C14_SleepsNewDelay ==
  /\ applied = <<1>>
  /\ \E w, v \in addresses :
       /\ wpc[w] = "Sleeping" /\ sleep_for[w] = DEFAULT_DELAY + DELAY_STEP
       /\ wpc[v] = "Sleeping" /\ sleep_for[v] = DEFAULT_DELAY

\* C15: permits held plus permits free are always 5, and all 5 are free
\* once every worker is Stopped; a worker that holds a fresh permit when
\* stop_event is set leaves it in one step to Stopped, the permit released,
\* sent unchanged and no probe started.
C15_NoPermitLeak ==
  /\ [](/\ semaphore + Cardinality(Holders) = WINDOW_SIZE
        /\ (\A w \in addresses : wpc[w] = "Stopped") => semaphore = WINDOW_SIZE)
  /\ [][\A w \in addresses :
          (wpc[w] = "Admitted" /\ stop_event /\ wpc'[w] # "Admitted") =>
            /\ wpc'[w] = "Stopped"
            /\ stat'[w] = stat[w]
            /\ semaphore' = semaphore + 1]_vars

\* C15's case: stop_event was set while a worker waited for its first
\* permit; it now holds the permit, the last worker not yet Stopped
C15_AbandonedAtGate ==
  /\ stop_event
  /\ \E w \in addresses :
       /\ wpc[w] = "Admitted" /\ stat[w].sent = 0
       /\ semaphore = WINDOW_SIZE - 1
       /\ \A v \in addresses \ {w} : wpc[v] = "Stopped"

\* C16: the terminal is in cbreak mode only while the listener thread is
\* alive; while the orchestrator waits in stop() for a live thread, that
\* thread has been told to stop; and once stop() has returned the thread has
\* ended and the terminal is in its original mode.
C16_TerminalRestored ==
  /\ terminal = "cbreak" => ThreadAlive
  /\ (opc = "join" /\ ThreadAlive) => l_stop
  /\ opc \in {"gather", "returned", "raised"} =>
       ~ThreadAlive /\ terminal = "orig"

\* C16's case: the listener ended itself on escape while in cbreak mode,
\* stop() was called afterwards, and monitor_addresses has returned
C16_RestoredAfterEscape ==
  /\ opc = "returned"
  /\ escape_pressed /\ stopped_by_escape
  /\ lpc = "ended"
  /\ terminal = "orig"

\* C17: in every state, and so in every refresh, the latency and the success
\* flag of an address are those of construction while no outcome was folded
\* and afterwards those of one single probe outcome; they change only in the
\* step that folds an outcome, both at once; and the row rendered shows N/A
\* exactly when that outcome carried no latency.
C17_RowNotTorn ==
  /\ [](\A w \in addresses :
          /\ IF folded[w] = 0
               THEN /\ stat[w].latency_ms = PingStats.latency_ms
                    /\ stat[w].last_success = PingStats.last_success
               ELSE <<stat[w].latency_ms, stat[w].last_success>>
                      \in Outcomes(reach[w])
          /\ (Frame(TRUE).rows[w].latency.text = "N/A")
               <=> (stat[w].latency_ms = NoLatency)
          /\ (Frame(TRUE).rows[w].colour = "green") <=> stat[w].last_success)
  /\ [][\A w \in addresses :
          (\/ stat'[w].latency_ms # stat[w].latency_ms
           \/ stat'[w].last_success # stat[w].last_success) =>
            /\ wpc[w] = "Probing"
            /\ folded'[w] = folded[w] + 1
            /\ <<stat'[w].latency_ms, stat'[w].last_success>>
                 \in Outcomes(reach[w])]_vars

\* C17's case: a worker refreshes the display while the other address, after
\* an answered first probe, has its unanswered second probe folded
C17_RefreshAfterFailure ==
  \E a, b \in addresses :
    /\ a # b
    /\ wpc[a] = "Rendering"
    /\ folded[b] = 2 /\ stat[b].received = 1
    /\ stat[b].latency_ms = NoLatency /\ ~stat[b].last_success
    /\ Frame(TRUE).rows[b].colour = "red"

\* C18: while the first address's probe never returns and stop_event is not
\* set, every other worker goes on: from each count of attempts below the
\* number observed it reaches the next count and the refresh that shows it.
C18_OthersProgress ==
  \A w \in 2..UpTargets : \A k \in 0..(MaxSent - 1) :
    (stat[w].sent = k) ~>
      (stat[w].sent = k + 1 /\ folded[w] = k + 1 /\ wpc[w] = "Rendering")

\* C18's case: the first worker is held in its probe with nothing folded
\* while every other worker has completed all its cycles
C18_BlockedBesideDone ==
  /\ ~stop_event
  /\ wpc[1] = "Probing" /\ folded[1] = 0
  /\ \A w \in 2..UpTargets : folded[w] = MaxSent /\ wpc[w] = "Idle"

C20_NothingLost ==
  stopped_by_escape => (adjustments = <<>> /\ applied = queued)

\* C20: whenever the drain loop of an iteration ends, the deque is empty and
\* every adjustment queued so far has been applied; once the control loop
\* has exited on escape nothing more is consumed, so what was queued after
\* the last drain stays in the deque.
C20_DrainedThenFrozen ==
  [][/\ (opc = "drain" /\ opc' = "refresh") =>
          (adjustments = <<>> /\ applied' = queued /\ queued' = queued)
     /\ stopped_by_escape =>
          (applied' = applied /\ adjustments' = adjustments
           /\ delay' = delay)]_vars

\* C20's case: '+' was applied, '-' was queued after the drain and before
\* escape, and the program returned with '-' still in the deque
C20_LeftInQueue ==
  /\ opc = "returned"
  /\ stopped_by_escape
  /\ queued = <<1, -1>>
  /\ applied = <<1>>
  /\ adjustments = <<-1>>
  /\ delay = DEFAULT_DELAY + DELAY_STEP

=============================================================================
